---------------------------- MODULE Spec2Model ----------------------------
(***************************************************************************)
(* Model of the two table formatters of the VTT CLI:                       *)
(*   packages/cli/assets/format-doctor-tables.py  (main)                   *)
(*   packages/cli/assets/format-storage-table.py  (format_storage_table)   *)
(*                                                                         *)
(* Text is modelled by TLA+ strings, on which TLC evaluates Len, \o and    *)
(* SubSeq.  The text written to stdout is modelled as the sequence of its  *)
(* lines (the text is the lines joined by "\n").                           *)
(*                                                                         *)
(* A parsed JSON value is a record [t, v]: t is the kind ("obj", "arr",    *)
(* "str", "num", "bool", "null") and v the payload.  An object's payload   *)
(* is the sequence of its <<key, value>> pairs in insertion order, keys    *)
(* distinct, as a Python dict keeps them.  A raised Python exception is    *)
(* the value [t |-> "raise", v |-> <exception class>]; every operation     *)
(* hands a raised operand on unchanged, so the first exception in          *)
(* statement order is the one the run ends with.                           *)
(***************************************************************************)
EXTENDS Integers, Sequences, FiniteSets, TLC

VARIABLES data, view, out, err, pc

vars == <<data, view, out, err, pc>>

-----------------------------------------------------------------------------
(* JSON values and the Python operations the formatters apply to them.     *)

S(s) == [t |-> "str", v |-> s]
N(n) == [t |-> "num", v |-> n]
B(b) == [t |-> "bool", v |-> b]
Null == [t |-> "null", v |-> ""]
Arr(items) == [t |-> "arr", v |-> items]
Obj(pairs) == [t |-> "obj", v |-> pairs]
EmptyObj == Obj(<<>>)
Raise(e) == [t |-> "raise", v |-> e]

\* The glyphs U+2713 (check mark) and U+2717 (ballot x), each one column
\* wide.  SANY reads ASCII only, so each is written as one ASCII character
\* that occurs in no label of the formatters.
CHECK == "+"
CROSS == "!"

HasKey(o, k) == \E i \in DOMAIN o.v : o.v[i][1] = k
Lookup(o, k) == o.v[CHOOSE i \in DOMAIN o.v : o.v[i][1] = k][2]

\* PyGet with a non-dict receiver treated like an empty dict.
PyGetLenient(x, k, d) ==
    IF x.t = "raise" THEN x
    ELSE IF x.t = "obj" /\ HasKey(x, k) THEN Lookup(x, k) ELSE d

\* x.get(k, d): AttributeError unless x is a dict.
PyGet(x, k, d) ==
    IF x.t = "raise" THEN x
    ELSE IF x.t # "obj" THEN Raise("AttributeError")
    ELSE IF HasKey(x, k) THEN Lookup(x, k) ELSE d

\* x[k] on a dict: KeyError when the key is absent.
PyIndex(x, k) ==
    IF x.t = "raise" THEN x
    ELSE IF x.t # "obj" THEN Raise("TypeError")
    ELSE IF HasKey(x, k) THEN Lookup(x, k) ELSE Raise("KeyError")

\* Python truth value of a parsed JSON value.
Truthy(x) ==
    CASE x.t = "bool" -> x.v
      [] x.t = "num" -> x.v # 0
      [] x.t = "str" -> x.v # ""
      [] x.t = "null" -> FALSE
      [] x.t \in {"obj", "arr"} -> Len(x.v) > 0
      [] x.t = "raise" -> FALSE

\* str(x) of a scalar, as PrettyTable and an f-string format a cell.
Str(x) ==
    CASE x.t = "str" -> x.v
      [] x.t = "num" -> ToString(x.v)
      [] x.t = "bool" -> IF x.v THEN "True" ELSE "False"
      [] x.t = "null" -> "None"
      [] x.t = "raise" -> ""

\* a or b
PyOr(a, b) == IF a.t = "raise" THEN a ELSE IF Truthy(a) THEN a ELSE b

\* The first raised exception among the values a run computes, in order.
RECURSIVE FirstRaise(_)
FirstRaise(xs) ==
    IF xs = <<>> THEN "none"
    ELSE IF Head(xs).t = "raise" THEN Head(xs).v
    ELSE FirstRaise(Tail(xs))

-----------------------------------------------------------------------------
(* Strings.                                                                *)

RECURSIVE Rep(_, _)
\* s * n
Rep(s, n) == IF n <= 0 THEN "" ELSE s \o Rep(s, n - 1)

StartsAt(s, i, sub) == SubSeq(s, i, i + Len(sub) - 1) = sub

\* sub in s
Contains(s, sub) == \E i \in 1..(Len(s) - Len(sub) + 1) : StartsAt(s, i, sub)

\* The places at or after i where sub occurs in s.
Occurrences(s, i, sub) == {j \in i..(Len(s) - Len(sub) + 1) : StartsAt(s, j, sub)}

Least(X) == CHOOSE x \in X : \A y \in X : x <= y

RECURSIVE ReplaceFrom(_, _, _, _)
ReplaceFrom(s, i, old, new) ==
    LET found == Occurrences(s, i, old)
    IN  IF found = {} THEN SubSeq(s, i, Len(s))
        ELSE LET j == Least(found)
             IN  SubSeq(s, i, j - 1) \o new \o ReplaceFrom(s, j + Len(old), old, new)

\* s.replace(old, new), old non-empty: every occurrence, left to right,
\* without overlap.
Replace(s, old, new) == ReplaceFrom(s, 1, old, new)

\* The replacement applied to a text given as its lines; no pattern of the
\* formatters holds a line break, so no occurrence spans two lines.
ReplaceLines(ls, old, new) == [i \in DOMAIN ls |-> Replace(ls[i], old, new)]

-----------------------------------------------------------------------------
(* PrettyTable, as the formatters configure it: border = False, the        *)
(* default padding of one space on each side of a cell.                    *)

Max(a, b) == IF a >= b THEN a ELSE b

RECURSIVE MaxLen(_)
MaxLen(cells) == IF cells = <<>> THEN 0 ELSE Max(Len(Head(cells)), MaxLen(Tail(cells)))

\* PrettyTable(field_names) with header, per-column align and the rows added.
Table(fields, header, align, rows) ==
    [fields |-> fields, header |-> header, align |-> align, rows |-> rows]

\* Column widths: the header's names count only when the header is shown.
Widths(T) ==
    [c \in DOMAIN T.fields |->
        Max(IF T.header THEN Len(T.fields[c]) ELSE 0,
            MaxLen([r \in DOMAIN T.rows |-> T.rows[r][c]]))]

\* A cell's text padded to its column's width.
Justify(text, width, align) ==
    LET excess == width - Len(text)
    IN  CASE align = "l" -> text \o Rep(" ", excess)
          [] align = "r" -> Rep(" ", excess) \o text
          [] OTHER ->
               IF excess % 2 = 1
               THEN IF Len(text) % 2 = 1
                    THEN Rep(" ", excess \div 2) \o text \o Rep(" ", excess \div 2 + 1)
                    ELSE Rep(" ", excess \div 2 + 1) \o text \o Rep(" ", excess \div 2)
               ELSE Rep(" ", excess \div 2) \o text \o Rep(" ", excess \div 2)

RECURSIVE RowCells(_, _, _, _)
RowCells(cells, widths, align, c) ==
    IF c > Len(cells) THEN ""
    ELSE " " \o Justify(cells[c], widths[c], align[c]) \o " "
         \o RowCells(cells, widths, align, c + 1)

\* One line of the table: each cell justified and padded, nothing between
\* the columns when there is no border.
StringifyRow(cells, widths, align) == RowCells(cells, widths, align, 1)

\* get_string(): the header line when the header is shown, then one line
\* per row.
GetString(T) ==
    LET widths == Widths(T)
    IN  (IF T.header THEN <<StringifyRow(T.fields, widths, T.align)>> ELSE <<>>)
        \o [r \in DOMAIN T.rows |-> StringifyRow(T.rows[r], widths, T.align)]

-----------------------------------------------------------------------------
(* format-doctor-tables.py                                                 *)

\* runtime_type (line 11)
RuntimeType(runtime) == PyGet(runtime, "type", S("unknown"))

\* runtime_type_display (lines 12-16): the lookup falls back to the raw value.
RuntimeTypeDisplay(runtime_type) ==
    IF runtime_type.t = "raise" THEN runtime_type
    ELSE IF runtime_type.t \in {"obj", "arr"} THEN Raise("TypeError")
    ELSE PyOr(CASE runtime_type = S("bundled") -> S("Bundled (self-contained)")
                [] runtime_type = S("system") -> S("System")
                [] runtime_type = S("custom") -> S("Custom (env override)")
                [] OTHER -> runtime_type,
              runtime_type)

\* runtime_type_value (line 18): str + str, a TypeError on any other operand.
RuntimeTypeValue(runtime_type) ==
    LET display == RuntimeTypeDisplay(runtime_type)
    IN  IF display.t = "raise" THEN display
        ELSE IF runtime_type # S("system")
             THEN IF display.t = "str" THEN S(CHECK \o " " \o display.v)
                  ELSE Raise("TypeError")
             ELSE display

\* runtime_table (lines 20-28)
RuntimeTable(runtime) ==
    Table(<<"Runtime", "Value">>, FALSE, <<"l", "l">>,
          << <<"Python", Str(PyGet(runtime, "python", S("")))>>,
             <<"Sox", Str(PyGet(runtime, "sox", S("")))>>,
             <<"Data", Str(PyGet(runtime, "data_dir", S("")))>> >>)

Glyph(x) == IF Truthy(x) THEN CHECK ELSE CROSS

\* deps_table (lines 35-43)
DepsTable(system) ==
    Table(<<"Dependencies", "Installed">>, FALSE, <<"l", "c">>,
          << <<"Sox", Glyph(PyGet(system, "sox", Null))>>,
             <<"afplay", Glyph(PyGet(system, "afplay", Null))>>,
             <<"say", Glyph(PyGet(system, "say", Null))>> >>)

\* stt_table (lines 46-56); align["Status"] names no column, so the
\* "installed" column keeps PrettyTable's default, centred.
SttTable(engines, models) ==
    Table(<<"Engine", "installed", "Models">>, TRUE, <<"l", "c", "c">>,
          << <<"Whisper", Glyph(PyGet(engines, "whisper", Null)),
               Str(PyGet(models, "whisper", N(0)))>>,
             <<"Parakeet", Glyph(PyGet(engines, "parakeet", Null)),
               Str(PyGet(models, "parakeet", N(0)))>> >>)

\* piper_status (line 61)
PiperStatus(piper) == Glyph(PyGet(piper, "available", Null))

\* KokoroStatus with the suffix tied to "available" instead of
\* "server_running".
KokoroStatusByAvailable(kokoro) ==
    Glyph(PyGet(kokoro, "available", Null))
    \o (IF Truthy(PyGet(kokoro, "available", Null)) THEN " (server)" ELSE "")

\* kokoro_status (lines 62-64)
KokoroStatus(kokoro) ==
    Glyph(PyGet(kokoro, "available", Null))
    \o (IF Truthy(PyGet(kokoro, "server_running", Null)) THEN " (server)" ELSE "")

\* the voices cell of a Text-to-Speech row (lines 73-74)
VoicesCell(engine) == Str(PyGet(engine, "voices", N(0)))

\* tts_table (lines 66-74)
TtsTable(piper, kokoro) ==
    Table(<<"Engine", "installed", "Voices">>, TRUE, <<"l", "c", "c">>,
          << <<"Piper", PiperStatus(piper), VoicesCell(piper)>>,
             <<"Kokoro", KokoroStatus(kokoro), VoicesCell(kokoro)>> >>)

\* playback_status (line 78): playback['pid'] is read only when active.
PlaybackStatus(playback) ==
    IF playback.t = "raise" THEN playback
    ELSE IF playback.t # "obj" THEN Raise("AttributeError")
    ELSE IF Truthy(PyGet(playback, "active", Null))
         THEN LET pid == PyIndex(playback, "pid")
              IN  IF pid.t = "raise" THEN pid
                  ELSE S("Active (PID: " \o Str(pid) \o ")")
         ELSE S("Stopped")

\* services_table (lines 80-87)
ServicesTable(playback_status, kokoro) ==
    Table(<<"Service", "Status">>, FALSE, <<"l", "l">>,
          << <<"Playback", Str(playback_status)>>,
             <<"Kokoro Server",
               IF Truthy(PyGet(kokoro, "server_running", Null))
               THEN "Running" ELSE "Not running">> >>)

\* HasEnvTable testing presence (is not None) instead of truth.
HasEnvTableIfPresent(env_vars) == env_vars.t # "null"

\* whether an environment table is built (line 92)
HasEnvTable(env_vars) == Truthy(env_vars)

\* env_vars.items() (line 99): AttributeError unless a dict.
EnvItems(env_vars) ==
    IF HasEnvTable(env_vars) /\ env_vars.t # "obj" THEN Raise("AttributeError")
    ELSE env_vars

\* env_table (lines 93-100): one row per pair, in the dict's order.
EnvTable(env_vars) ==
    Table(<<"VTT_", "Value">>, FALSE, <<"l", "l">>,
          [i \in DOMAIN env_vars.v |-> <<env_vars.v[i][1], Str(env_vars.v[i][2])>>])

\* the printed Env Variables block (lines 105-108)
EnvSection(env_vars) ==
    IF HasEnvTable(env_vars) /\ env_vars.t = "obj"
    THEN <<"", "Env Variables:">> \o GetString(EnvTable(env_vars))
    ELSE <<>>

\* main (lines 6-121): what the run raises, and the lines it prints.  Every
\* print follows the last statement that can raise, so a run that raises
\* has printed nothing.
DoctorMain(d) ==
    LET runtime == PyGet(d, "runtime", EmptyObj)
        runtime_type == RuntimeType(runtime)
        runtime_type_value == RuntimeTypeValue(runtime_type)
        deps == PyGet(d, "dependencies", EmptyObj)
        system == PyGet(deps, "system", EmptyObj)
        engines == PyGet(deps, "engines", EmptyObj)
        sox == PyGet(system, "sox", Null)
        models == PyGet(d, "models", EmptyObj)
        whisper == PyGet(models, "whisper", N(0))
        piper == PyGet(engines, "piper", EmptyObj)
        kokoro == PyGet(engines, "kokoro", EmptyObj)
        piper_available == PyGet(piper, "available", Null)
        kokoro_available == PyGet(kokoro, "available", Null)
        playback == PyGet(d, "playback", EmptyObj)
        playback_status == PlaybackStatus(playback)
        env_vars == PyGet(d, "environment", Null)
        raised == FirstRaise(<<runtime, runtime_type, runtime_type_value, deps,
                               system, engines, sox, models, whisper, piper,
                               kokoro, piper_available, kokoro_available,
                               playback, playback_status, EnvItems(env_vars)>>)
    IN  IF raised # "none" THEN [err |-> raised, out |-> <<>>]
        ELSE [err |-> "none",
              out |-> <<"Runtime:">> \o GetString(RuntimeTable(runtime))
                      \o EnvSection(env_vars)
                      \o <<"", "Dependencies:">> \o GetString(DepsTable(system))
                      \o <<"", "Speech-to-Text:">> \o GetString(SttTable(engines, models))
                      \o <<"", "Text-to-Speech:">> \o GetString(TtsTable(piper, kokoro))
                      \o <<"", "Background Services:">>
                      \o GetString(ServicesTable(playback_status, kokoro))]

-----------------------------------------------------------------------------
(* format-storage-table.py                                                 *)

\* x.get("size_human", "0 B")
SizeHuman(x) == PyGet(x, "size_human", S("0 B"))

\* x.get("path", "")
PathOf(x) == PyGet(x, "path", S(""))

\* the chain of .replace calls on a table's text (lines 27, 53, 71, 92)
RECURSIVE StripHeader(_, _)
StripHeader(ls, subs) ==
    IF subs = <<>> THEN ls
    ELSE StripHeader(ReplaceLines(ls, Head(subs)[1], Head(subs)[2]), Tail(subs))

\* the Dependencies table (lines 18-25)
StorageDepsTable(deps) ==
    LET python == PyGet(deps, "python", EmptyObj)
        sox == PyGet(deps, "sox", EmptyObj)
    IN  Table(<<"Name", "Size", "Path">>, FALSE, <<"l", "r", "l">>,
              << <<"Python", Str(SizeHuman(python)), Str(PathOf(python))>>,
                 <<"Sox", Str(SizeHuman(sox)), Str(PathOf(sox))>> >>)

\* lines 26-27
StorageDepsLines(deps) ==
    StripHeader(GetString(StorageDepsTable(deps)),
                << <<"Name", "  ">>, <<"Size", "">>, <<"Path", "">> >>)

\* x.get(k, {}).get("size_human", "0 B")
SubSize(x, k) == SizeHuman(PyGet(x, k, EmptyObj))

\* the Storage Directories table (lines 35-51)
DirsTable(data_dir, hf_cache) ==
    LET stt == PyGet(data_dir, "stt", EmptyObj)
        tts == PyGet(data_dir, "tts", EmptyObj)
        Sub(x, k) == Str(SubSize(x, k))
    IN  Table(<<"Name", "Size", "Description">>, FALSE, <<"l", "r", "l">>,
              << <<"Data Directory", Str(SizeHuman(data_dir)), Str(PathOf(data_dir))>>,
                 <<"  stt/", Str(SizeHuman(stt)), "(daemon, recordings)">>,
                 <<"    daemon/", Sub(stt, "daemon"), "(scripts, logs)">>,
                 <<"    recordings/", Sub(stt, "recordings"), "(transcription audio)">>,
                 <<"  tts/", Str(SizeHuman(tts)), "(voices, previews, recordings)">>,
                 <<"    voices/", Sub(tts, "voices"), "(downloaded TTS voices)">>,
                 <<"    previews/", Sub(tts, "previews"), "(voice previews)">>,
                 <<"    recordings/", Sub(tts, "recordings"), "(saved TTS output)">>,
                 <<"    tmp/", Sub(tts, "tmp"), "(temporary files)">>,
                 <<"  venv/", Sub(data_dir, "venv"), "(Python environment)">>,
                 <<"HuggingFace Cache", Str(SizeHuman(hf_cache)), Str(PathOf(hf_cache))>>,
                 <<"  models/", Sub(hf_cache, "models"), "(STT models)">> >>)

\* lines 52-53
DirsLines(data_dir, hf_cache) ==
    StripHeader(GetString(DirsTable(data_dir, hf_cache)),
                << <<"Name", "  ">>, <<"Size", "">>, <<"Description", "">> >>)

\* Iterating items and calling .get on each element (lines 58, 78): a
\* TypeError when items is no iterable, an AttributeError on the first
\* element that is no dict.
IterDicts(items) ==
    IF items.t = "raise" THEN items
    ELSE IF items.t \in {"num", "bool", "null"} THEN Raise("TypeError")
    ELSE IF items.t = "str"
         THEN IF items.v = "" THEN Arr(<<>>) ELSE Raise("AttributeError")
    ELSE IF items.t = "obj"
         THEN IF items.v = <<>> THEN Arr(<<>>) ELSE Raise("AttributeError")
    ELSE IF \E i \in DOMAIN items.v : items.v[i].t # "obj" THEN Raise("AttributeError")
    ELSE items

\* the filter of line 58
IsDownloadedModel(m) == Truthy(PyGet(m, "downloaded", Null))

\* DownloadedModels without the filter.
AllModels(model_items) == model_items

\* downloaded_models (line 58)
DownloadedModels(model_items) == SelectSeq(model_items, IsDownloadedModel)

\* path (lines 66, 86)
ItemPath(m) == Str(PyOr(PyGet(m, "path", S("N/A")), S("N/A")))

\* the STT Models table (lines 62-69)
ModelsTable(downloaded_models) ==
    Table(<<"Alias", "Size", "Path">>, FALSE, <<"l", "r", "l">>,
          [i \in DOMAIN downloaded_models |->
             <<Str(PyGet(downloaded_models[i], "alias", S(""))),
               Str(SizeHuman(downloaded_models[i])),
               ItemPath(downloaded_models[i])>>])

\* the body of the STT Models section (lines 61-73)
ModelsLines(downloaded_models) ==
    IF downloaded_models # <<>>
    THEN StripHeader(GetString(ModelsTable(downloaded_models)),
                     << <<"Alias", "  ">>, <<"Size", "">>, <<"Path", "">> >>)
    ELSE <<"  (no models downloaded)">>

\* the filter of line 78; an absent provider is None, which is not "system"
IsDownloadedVoice(v) ==
    Truthy(PyGet(v, "downloaded", Null)) /\ PyGet(v, "provider", Null) # S("system")

\* DownloadedVoices with the models' filter: the provider is not looked at.
DownloadedAnyProvider(voice_items) == SelectSeq(voice_items, IsDownloadedModel)

\* downloaded_voices (line 78)
DownloadedVoices(voice_items) == SelectSeq(voice_items, IsDownloadedVoice)

\* the TTS Voices table (lines 82-90)
VoicesTable(downloaded_voices) ==
    Table(<<"Alias", "Provider", "Size", "Path">>, FALSE, <<"l", "l", "r", "l">>,
          [i \in DOMAIN downloaded_voices |->
             <<Str(PyGet(downloaded_voices[i], "alias", S(""))),
               Str(PyGet(downloaded_voices[i], "provider", S(""))),
               Str(SizeHuman(downloaded_voices[i])),
               ItemPath(downloaded_voices[i])>>])

\* the fallback line of the TTS Voices section (line 94)
NoVoicesLine == "  (no voices downloaded)"

\* VoicesLines with the fallback line of the STT Models section.
VoicesLinesModelsFallback(downloaded_voices) ==
    IF downloaded_voices # <<>>
    THEN StripHeader(GetString(VoicesTable(downloaded_voices)),
                     << <<"Alias", "  ">>, <<"Provider", "">>, <<"Size", "">>,
                        <<"Path", "">> >>)
    ELSE <<"  (no models downloaded)">>

\* the body of the TTS Voices section (lines 81-94)
VoicesLines(downloaded_voices) ==
    IF downloaded_voices # <<>>
    THEN StripHeader(GetString(VoicesTable(downloaded_voices)),
                     << <<"Alias", "  ">>, <<"Provider", "">>, <<"Size", "">>,
                        <<"Path", "">> >>)
    ELSE <<NoVoicesLine>>

\* the totals table (lines 97-104): the label is the first column's name and
\* its cell is empty.
TotalsTable(totals) ==
    Table(<<"Total Storage Used", "Size">>, FALSE, <<"l", "r">>,
          << <<"", Str(PyGet(totals, "grand_total_human", S("0 B")))>> >>)

\* lines 99-105
TotalsLines(totals) == GetString(TotalsTable(totals))

\* format_storage_table and the print of its result (lines 9-112).  The
\* text is printed only once it is whole, so a run that raises has printed
\* nothing.  "\nVTT Storage Usage" and the separator followed by "\n" each
\* give two lines.
FormatStorageTable(d) ==
    LET deps == PyGet(d, "dependencies", EmptyObj)
        python == PyGet(deps, "python", EmptyObj)
        sox == PyGet(deps, "sox", EmptyObj)
        storage == PyGet(d, "storage", EmptyObj)
        data_dir == PyGet(storage, "data_dir", EmptyObj)
        hf_cache == PyGet(storage, "huggingface_cache", EmptyObj)
        stt == PyGet(data_dir, "stt", EmptyObj)
        tts == PyGet(data_dir, "tts", EmptyObj)
        models == PyGet(d, "models", EmptyObj)
        model_items == IterDicts(PyGet(models, "items", Arr(<<>>)))
        voices == PyGet(d, "voices", EmptyObj)
        voice_items == IterDicts(PyGet(voices, "items", Arr(<<>>)))
        totals == PyGet(d, "totals", EmptyObj)
        grand_total == PyGet(totals, "grand_total_human", S("0 B"))
        raised == FirstRaise(<<deps, python, SizeHuman(python), sox, SizeHuman(sox),
                               storage, data_dir, hf_cache, SizeHuman(data_dir),
                               stt, SizeHuman(stt), SubSize(stt, "daemon"),
                               SubSize(stt, "recordings"), tts, SizeHuman(tts),
                               SubSize(tts, "voices"), SubSize(tts, "previews"),
                               SubSize(tts, "recordings"), SubSize(tts, "tmp"),
                               SubSize(data_dir, "venv"), SizeHuman(hf_cache),
                               SubSize(hf_cache, "models"), models, model_items,
                               voices, voice_items, totals, grand_total>>)
    IN  IF raised # "none" THEN [err |-> raised, out |-> <<>>]
        ELSE [err |-> "none",
              out |-> <<"", "VTT Storage Usage", Rep("=", 60), "">>
                      \o <<"Dependencies">> \o StorageDepsLines(deps) \o <<"">>
                      \o <<"Storage Directories">> \o DirsLines(data_dir, hf_cache) \o <<"">>
                      \o <<"STT Models">> \o ModelsLines(DownloadedModels(model_items.v))
                      \o <<"">>
                      \o <<"TTS Voices">> \o VoicesLines(DownloadedVoices(voice_items.v))
                      \o <<"">>
                      \o TotalsLines(totals)]

-----------------------------------------------------------------------------
(* The reports the formatters are run on: the parsed JSON documents that   *)
(* json.load (doctor, line 7) and json.loads (storage, line 10) return.    *)

\* Longest models.items / voices.items list, and most environment pairs.
MaxItems == 2
MaxEnv == 2

\* The choices for one optional key: absent, or present with one of vals.
Opt(k, vals) == {<<>>} \cup {<< <<k, v>> >> : v \in vals}

\* d with key k set to value x (d[k] = x).
With(d, k, x) ==
    IF HasKey(d, k)
    THEN Obj([i \in DOMAIN d.v |-> IF d.v[i][1] = k THEN <<k, x>> ELSE d.v[i]])
    ELSE Obj(d.v \o << <<k, x>> >>)

\* All sequences over S of length at most n.
RECURSIVE SeqsUpTo(_, _)
SeqsUpTo(X, n) ==
    IF n = 0 THEN {<<>>}
    ELSE SeqsUpTo(X, n - 1)
         \cup {Append(q, x) : q \in {r \in SeqsUpTo(X, n - 1) : Len(r) = n - 1}, x \in X}

Flags == {B(TRUE), B(FALSE)}

RuntimeValues ==
    {Obj(a \o b \o c \o d) :
        a \in Opt("type", {S("bundled"), S("system"), S("custom"), S("nix"), S("")}),
        b \in Opt("python", {S("/opt/vtt/bin/python3")}),
        c \in Opt("sox", {S("/opt/homebrew/bin/sox")}),
        d \in Opt("data_dir", {S("/Users/me/.vtt")})}

SystemValues ==
    {Obj(a \o b \o c) :
        a \in Opt("sox", Flags), b \in Opt("afplay", {B(TRUE)}),
        c \in Opt("say", {B(FALSE), N(1)})}

PiperValues ==
    {EmptyObj, Obj(<< <<"available", B(TRUE)>>, <<"voices", N(2)>> >>),
     Obj(<< <<"available", B(FALSE)>> >>)}

KokoroValues ==
    {Obj(a \o b \o c) :
        a \in Opt("available", Flags \cup {N(1)}),
        b \in Opt("server_running", Flags \cup {S("yes")}),
        c \in Opt("voices", {N(0), N(3)})}

SttEngineValues ==
    {Obj(a \o b) : a \in Opt("whisper", Flags), b \in Opt("parakeet", {B(TRUE), Null})}

ModelCountValues ==
    {Obj(a \o b) : a \in Opt("whisper", {N(2)}), b \in Opt("parakeet", {N(0), N(1)})}

PlaybackValues ==
    {Obj(a \o b) : a \in Opt("active", Flags), b \in Opt("pid", {N(4242)})}

EnvKeys == {"VTT_DATA_DIR", "VTT_PYTHON_PATH", "VTT_SOX_PATH", "VTT_DEBUG"}

EnvValue(k) == IF k = "VTT_DEBUG" THEN N(1) ELSE S("/custom/" \o k)

\* The environment mappings: up to MaxEnv pairs with distinct keys, in
\* every order; and one value that is no mapping.
EnvValues ==
    {Obj([i \in DOMAIN ks |-> <<ks[i], EnvValue(ks[i])>>]) :
        ks \in {q \in SeqsUpTo(EnvKeys, MaxEnv) :
                  \A i, j \in DOMAIN q : i # j => q[i] # q[j]}}
    \cup {S("on")}

DepValues ==
    {Obj(a \o b) :
        a \in Opt("size_human", {S("48.2 MB")}),
        b \in Opt("path", {S("/opt/vtt/python"), S("/Users/Name/Path/bin"), S("")})}

StorageDepsValues ==
    {Obj(a \o b) : a \in Opt("python", DepValues), b \in Opt("sox", {Obj(<< <<"size_human", S("1.1 MB")>> >>)})}

DirValues ==
    {Obj(a \o b \o c) :
        a \in Opt("size_human", {S("2.0 GB")}),
        b \in Opt("path", {S("/Users/me/.vtt"), S("/Volumes/Size/Description")}),
        c \in Opt("stt", {EmptyObj,
                          Obj(<< <<"size_human", S("12 MB")>>,
                                 <<"daemon", Obj(<< <<"size_human", S("4 KB")>> >>)>> >>)})}

StorageValues ==
    {Obj(a \o b) :
        a \in Opt("data_dir", DirValues),
        b \in Opt("huggingface_cache",
                  {Obj(<< <<"size_human", S("3.1 GB")>>, <<"path", S("/Users/me/.cache/hf")>>,
                          <<"models", Obj(<< <<"size_human", S("3.0 GB")>> >>)>> >>)})}

ModelItems ==
    {Obj(<< <<"alias", S("tiny")>>, <<"downloaded", B(TRUE)>>,
            <<"size_human", S("75 MB")>>, <<"path", S("/hf/whisper-tiny")>> >>),
     Obj(<< <<"alias", S("base")>>, <<"downloaded", B(FALSE)>>,
            <<"size_human", S("0 B")>>, <<"path", S("")>> >>),
     Obj(<< <<"alias", S("large")>>, <<"downloaded", N(1)>> >>),
     Obj(<< <<"alias", S("small")>> >>),
     Obj(<< <<"downloaded", B(TRUE)>>, <<"path", S("")>> >>),
     Obj(<< <<"alias", S("Size-XL")>>, <<"downloaded", B(TRUE)>>,
            <<"size_human", S("1.5 GB")>>, <<"path", S("/hf/Alias/Path")>> >>)}

VoiceItems ==
    {Obj(<< <<"alias", S("amy")>>, <<"provider", S("piper")>>, <<"downloaded", B(TRUE)>>,
            <<"size_human", S("63 MB")>>, <<"path", S("/v/amy.onnx")>> >>),
     Obj(<< <<"alias", S("Samantha")>>, <<"provider", S("system")>>,
            <<"downloaded", B(TRUE)>> >>),
     Obj(<< <<"alias", S("heart")>>, <<"provider", S("kokoro")>>,
            <<"downloaded", B(FALSE)>> >>),
     Obj(<< <<"alias", S("joe")>>, <<"downloaded", B(TRUE)>>, <<"path", S("")>> >>),
     Obj(<< <<"alias", S("bella")>>, <<"provider", S("kokoro")>>, <<"downloaded", N(1)>> >>),
     Obj(<< <<"alias", S("ryan")>>, <<"provider", S("Provider-X")>>,
            <<"downloaded", B(TRUE)>>, <<"size_human", S("60 MB")>>,
            <<"path", S("/v/Size/ryan.onnx")>> >>)}

ItemsValues(X) ==
    {EmptyObj} \cup {Obj(<< <<"items", Arr(q)>> >>) : q \in SeqsUpTo(X, MaxItems)}

TotalsValues ==
    {EmptyObj, Obj(<< <<"grand_total_human", S("5.2 GB")>> >>),
     Obj(<< <<"grand_total_human", S("")>> >>)}

\* A report with every section present.
FullReport ==
    Obj(<< <<"runtime", Obj(<< <<"type", S("bundled")>>,
                                <<"python", S("/opt/vtt/bin/python3")>>,
                                <<"sox", S("/opt/vtt/bin/sox")>>,
                                <<"data_dir", S("/Users/me/.vtt")>> >>)>>,
           <<"dependencies",
             Obj(<< <<"system", Obj(<< <<"sox", B(TRUE)>>, <<"afplay", B(TRUE)>>,
                                       <<"say", B(TRUE)>> >>)>>,
                    <<"engines",
                      Obj(<< <<"whisper", B(TRUE)>>, <<"parakeet", B(FALSE)>>,
                             <<"piper", Obj(<< <<"available", B(TRUE)>>,
                                               <<"voices", N(1)>> >>)>>,
                             <<"kokoro", Obj(<< <<"available", B(TRUE)>>,
                                                <<"server_running", B(FALSE)>>,
                                                <<"voices", N(5)>> >>)>> >>)>>,
                    <<"python", Obj(<< <<"size_human", S("48.2 MB")>>,
                                       <<"path", S("/opt/vtt/python")>> >>)>>,
                    <<"sox", Obj(<< <<"size_human", S("1.1 MB")>>,
                                    <<"path", S("/opt/vtt/bin/sox")>> >>)>> >>)>>,
           <<"models", Obj(<< <<"whisper", N(1)>>, <<"parakeet", N(0)>>,
                              <<"items", Arr(<<CHOOSE m \in ModelItems :
                                                 PyGet(m, "alias", Null) = S("tiny")>>)>> >>)>>,
           <<"voices", Obj(<< <<"items", Arr(<<CHOOSE v \in VoiceItems :
                                                 PyGet(v, "alias", Null) = S("amy")>>)>> >>)>>,
           <<"playback", Obj(<< <<"active", B(TRUE)>>, <<"pid", N(4242)>> >>)>>,
           <<"environment", Obj(<< <<"VTT_DATA_DIR", S("/custom/VTT_DATA_DIR")>> >>)>>,
           <<"storage", Obj(<< <<"data_dir", Obj(<< <<"size_human", S("2.0 GB")>>,
                                                    <<"path", S("/Users/me/.vtt")>> >>)>> >>)>>,
           <<"totals", Obj(<< <<"grand_total_human", S("5.2 GB")>> >>)>> >>)

Bases == {EmptyObj, FullReport}

\* The reports of one family: a base report with one section replaced.
SectionReports(k, values) == {With(b, k, x) : b \in Bases, x \in values}

\* Likewise for a section nested one and two levels down.
Nested(b, k1, k2, x) == With(b, k1, With(PyGet(b, k1, EmptyObj), k2, x))

Nested3(b, k1, k2, k3, x) ==
    With(b, k1, Nested(PyGet(b, k1, EmptyObj), k2, k3, x))

ObjectReports ==
    Bases
    \cup SectionReports("runtime", RuntimeValues)
    \cup {Nested(b, "dependencies", "system", x) : b \in Bases, x \in SystemValues}
    \cup {Nested(b, "dependencies", "engines", x) : b \in Bases, x \in SttEngineValues}
    \cup {Nested3(Nested3(b, "dependencies", "engines", "piper", p),
                  "dependencies", "engines", "kokoro", k) :
            b \in Bases, p \in PiperValues, k \in KokoroValues}
    \cup SectionReports("models", ModelCountValues)
    \cup SectionReports("models", ItemsValues(ModelItems))
    \cup SectionReports("playback", PlaybackValues)
    \cup SectionReports("environment", EnvValues)
    \cup {With(b, "dependencies", Obj(PyGet(b, "dependencies", EmptyObj).v \o x.v)) :
            b \in {EmptyObj}, x \in StorageDepsValues}
    \cup SectionReports("storage", StorageValues)
    \cup SectionReports("voices", ItemsValues(VoiceItems))
    \cup SectionReports("totals", TotalsValues)

\* Top-level JSON values that are no object.
NonObjects ==
    {N(7), N(0), S("report"), S(""), B(TRUE), B(FALSE), Null, Arr(<<>>),
     Arr(<<EmptyObj>>), Arr(<<FullReport>>)}

Reports == ObjectReports \cup NonObjects

-----------------------------------------------------------------------------
(* The runs.                                                               *)

Init ==
    /\ data \in Reports
    /\ view = "none"
    /\ out = <<>>
    /\ err = "none"
    /\ pc = "start"

\* format-doctor-tables.py run on the report
RunDoctor ==
    /\ pc = "start"
    /\ LET r == DoctorMain(data)
       IN  /\ out' = r.out
           /\ err' = r.err
    /\ view' = "doctor"
    /\ pc' = "done"
    /\ UNCHANGED data

\* format-storage-table.py run on the report
RunStorage ==
    /\ pc = "start"
    /\ LET r == FormatStorageTable(data)
       IN  /\ out' = r.out
           /\ err' = r.err
    /\ view' = "storage"
    /\ pc' = "done"
    /\ UNCHANGED data

Next == RunDoctor \/ RunStorage

Spec == Init /\ [][Next]_vars

-----------------------------------------------------------------------------
(* Reading a rendering back: sections, rows and cells.                     *)

\* The run of the given view has ended / has ended without an exception.
Done(v) == pc = "done" /\ view = v
Rendered(v) == Done(v) /\ err = "none"

\* The lines that follow the first line equal to heading, up to the next
\* blank line (or the end); empty when there is no such heading.
SectionBody(ls, heading) ==
    LET at == {i \in DOMAIN ls : ls[i] = heading}
    IN  IF at = {} THEN <<>>
        ELSE LET h == Least(at)
                 blanks == {i \in (h + 1)..Len(ls) : ls[i] = ""}
                 last == IF blanks = {} THEN Len(ls) ELSE Least(blanks) - 1
             IN  SubSeq(ls, h + 1, last)

RECURSIVE Trim(_)
Trim(s) ==
    IF s = "" THEN s
    ELSE IF SubSeq(s, 1, 1) = " " THEN Trim(SubSeq(s, 2, Len(s)))
    ELSE IF SubSeq(s, Len(s), Len(s)) = " " THEN Trim(SubSeq(s, 1, Len(s) - 1))
    ELSE s

\* The cells of a table row: its texts separated by two or more spaces.
RECURSIVE SplitCells(_)
SplitCells(s) ==
    LET t == Trim(s)
        gaps == Occurrences(t, 1, "  ")
    IN  IF t = "" THEN <<>>
        ELSE IF gaps = {} THEN <<t>>
        ELSE <<SubSeq(t, 1, Least(gaps) - 1)>>
             \o SplitCells(SubSeq(t, Least(gaps), Len(t)))

\* The column names whose text the storage formatter replaces.
HeaderLabels == {"Name", "Size", "Path", "Alias", "Provider", "Description"}
HasLabel(s) == \E h \in HeaderLabels : Contains(s, h)

\* The items list of a section of the report ([] when absent).
ItemsOf(section) ==
    PyGet(PyGet(data, section, EmptyObj), "items", Arr(<<>>)).v

Flag(item) == PyGet(item, "downloaded", Null)
AliasOf(item) == Str(PyGet(item, "alias", S("")))
SizeCellOf(item) == Str(PyGet(item, "size_human", S("0 B")))

\* A row of an item table shows the item: it starts with the item's alias
\* (when header stripping leaves the alias alone) and holds its size.
RowShows(row, item) ==
    /\ ~HasLabel(AliasOf(item)) => StartsAt(row, 1, " " \o AliasOf(item) \o " ")
    /\ Contains(row, " " \o SizeCellOf(item) \o " ")

-----------------------------------------------------------------------------
(* C3 *)

\* C3 as stated: a top-level JSON value that is no object makes either view
\* fail with the error kind MalformedInput, with no line printed.
C3_FailsWithMalformedInput ==
    (pc = "done" /\ data.t # "obj") => (err = "MalformedInput" /\ out = <<>>)

\* C3, amended: a top-level JSON value that is no object makes either view
\* fail with Python's AttributeError (raised by the first .get), with no
\* line printed.
C3_NonObjectFails ==
    (pc = "done" /\ data.t # "obj") => (err = "AttributeError" /\ out = <<>>)

C3_Witness ==
    /\ Done("storage")
    /\ data = Arr(<<EmptyObj>>)
    /\ err = "AttributeError"
    /\ out = <<>>

-----------------------------------------------------------------------------
(* C4 *)

WantedModels == SelectSeq(ItemsOf("models"), LAMBDA m : Truthy(Flag(m)))

\* C4: the STT Models section of the storage rendering has one row per
\* element of models.items with a truthy "downloaded" flag, in input order,
\* and no other row; the fallback line "(no models downloaded)" is there if
\* and only if no element has a truthy flag.
C4_ModelRows ==
    Rendered("storage") =>
        LET body == SectionBody(out, "STT Models")
            fallback == \E i \in DOMAIN body : Contains(body[i], "(no models downloaded)")
        IN  /\ fallback <=> (WantedModels = <<>>)
            /\ WantedModels # <<>> =>
                 /\ Len(body) = Len(WantedModels)
                 /\ \A i \in DOMAIN body : RowShows(body[i], WantedModels[i])

C4_Witness ==
    /\ Rendered("storage")
    /\ Len(ItemsOf("models")) = 2
    /\ Flag(ItemsOf("models")[1]) = B(FALSE)
    /\ Flag(ItemsOf("models")[2]) = B(TRUE)
    /\ Len(SectionBody(out, "STT Models")) = 1
    /\ StartsAt(SectionBody(out, "STT Models")[1], 1, " tiny ")

-----------------------------------------------------------------------------
(* C5 *)

WantedVoices ==
    SelectSeq(ItemsOf("voices"),
              LAMBDA v : Truthy(Flag(v)) /\ PyGet(v, "provider", Null) # S("system"))

\* C5: the TTS Voices section of the storage rendering has one row per
\* element of voices.items with a truthy "downloaded" flag and a provider
\* other than "system", in input order, and no other row; a downloaded
\* voice of provider "system" is not listed; the fallback line is there if
\* and only if no element passes both conditions.
C5_VoiceRows ==
    Rendered("storage") =>
        LET body == SectionBody(out, "TTS Voices")
            fallback == \E i \in DOMAIN body : Contains(body[i], "(no voices downloaded)")
        IN  /\ fallback <=> (WantedVoices = <<>>)
            /\ WantedVoices # <<>> =>
                 /\ Len(body) = Len(WantedVoices)
                 /\ \A i \in DOMAIN body : RowShows(body[i], WantedVoices[i])
            /\ \A j \in DOMAIN ItemsOf("voices") :
                 PyGet(ItemsOf("voices")[j], "provider", Null) = S("system") =>
                    \A i \in DOMAIN body :
                       ~StartsAt(body[i], 1, " " \o AliasOf(ItemsOf("voices")[j]) \o " ")

C5_Witness ==
    /\ Rendered("storage")
    /\ Len(ItemsOf("voices")) = 2
    /\ PyGet(ItemsOf("voices")[1], "provider", Null) = S("system")
    /\ Flag(ItemsOf("voices")[1]) = B(TRUE)
    /\ AliasOf(ItemsOf("voices")[2]) = "amy"
    /\ Len(SectionBody(out, "TTS Voices")) = 1
    /\ StartsAt(SectionBody(out, "TTS Voices")[1], 1, " amy ")

-----------------------------------------------------------------------------
(* C6 *)

\* C6 as stated: when no element of voices.items has downloaded = true, the
\* body of the TTS Voices section is exactly the one line
\* "(no voices downloaded)".
C6_ExactFallbackLine ==
    (Rendered("storage") /\ \A i \in DOMAIN ItemsOf("voices") :
                               Flag(ItemsOf("voices")[i]) # B(TRUE))
    => SectionBody(out, "TTS Voices") = <<"(no voices downloaded)">>

\* C6, amended: when no element of voices.items has a truthy downloaded
\* flag, the body of the TTS Voices section is exactly one line, the text
\* "(no voices downloaded)" behind two spaces of indentation.
C6_IndentedFallbackLine ==
    (Rendered("storage") /\ \A i \in DOMAIN ItemsOf("voices") :
                               ~Truthy(Flag(ItemsOf("voices")[i])))
    => SectionBody(out, "TTS Voices") = <<"  (no voices downloaded)">>

C6_Witness ==
    /\ Rendered("storage")
    /\ Len(ItemsOf("voices")) = 2
    /\ \A i \in DOMAIN ItemsOf("voices") : ~Truthy(Flag(ItemsOf("voices")[i]))
    /\ SectionBody(out, "TTS Voices") = <<"  (no voices downloaded)">>

-----------------------------------------------------------------------------
(* C7 *)

\* The kokoro engine entry of the report ({} when absent).
KokoroEntry ==
    PyGet(PyGet(PyGet(data, "dependencies", EmptyObj), "engines", EmptyObj),
          "kokoro", EmptyObj)

\* The Kokoro row of the Text-to-Speech table: the header and the Piper row
\* come before it.
KokoroRow == SectionBody(out, "Text-to-Speech:")[3]

\* C7: the Kokoro row of the doctor rendering shows the check mark if the
\* entry's "available" is truthy and the cross otherwise, followed by
\* " (server)" if and only if "server_running" is truthy, and then the
\* entry's "voices" count, 0 when absent.
C7_KokoroRow ==
    Rendered("doctor") =>
        LET mark == IF Truthy(PyGet(KokoroEntry, "available", Null)) THEN CHECK ELSE CROSS
            suffix == IF Truthy(PyGet(KokoroEntry, "server_running", Null))
                      THEN " (server)" ELSE ""
            count == Str(PyGet(KokoroEntry, "voices", N(0)))
        IN  SplitCells(KokoroRow) = <<"Kokoro", mark \o suffix, count>>

C7_Witness ==
    /\ Rendered("doctor")
    /\ KokoroEntry = Obj(<< <<"available", B(TRUE)>>, <<"server_running", B(TRUE)>>,
                            <<"voices", N(3)>> >>)
    /\ SplitCells(KokoroRow) = <<"Kokoro", CHECK \o " (server)", "3">>

-----------------------------------------------------------------------------
(* C8 *)

\* A section heading: a line that is not blank and starts at column one
\* (every table row starts with a cell's padding).
IsHeading(line) == line # "" /\ SubSeq(line, 1, 1) # " "

\* The report's environment value is a non-empty mapping.
HasEnvironment ==
    LET e == PyGet(data, "environment", Null)
    IN  e.t = "obj" /\ e.v # <<>>

\* C8: the doctor rendering has its sections in the order Runtime,
\* Environment, Dependencies, Speech-to-Text, Text-to-Speech, Background
\* Services, exactly one blank line between consecutive sections; the
\* Environment section is there if and only if the report's environment is
\* a non-empty mapping, and then has one row per pair, in insertion order.
C8_SectionOrder ==
    /\ Rendered("doctor") =>
        LET body == SectionBody(out, "Env Variables:")
            env == PyGet(data, "environment", EmptyObj).v
        IN  /\ SelectSeq(out, IsHeading)
                 = <<"Runtime:">>
                   \o (IF HasEnvironment THEN <<"Env Variables:">> ELSE <<>>)
                   \o <<"Dependencies:", "Speech-to-Text:", "Text-to-Speech:",
                        "Background Services:">>
            /\ \A i \in DOMAIN out :
                 out[i] = "" <=> (1 < i /\ i < Len(out) /\ IsHeading(out[i + 1]))
            /\ IsHeading(out[1])
            /\ HasEnvironment =>
                 /\ Len(body) = Len(env)
                 /\ \A i \in DOMAIN body :
                      SplitCells(body[i]) = <<env[i][1], Str(env[i][2])>>
    /\ (Done("doctor") /\ err # "none") => out = <<>>

C8_Witness ==
    /\ Rendered("doctor")
    /\ HasEnvironment
    /\ Len(SectionBody(out, "Env Variables:")) = 2
    /\ SplitCells(SectionBody(out, "Env Variables:")[1])
         = <<"VTT_SOX_PATH", "/custom/VTT_SOX_PATH">>
    /\ SplitCells(SectionBody(out, "Env Variables:")[2]) = <<"VTT_DEBUG", "1">>
    /\ Len(SelectSeq(out, IsHeading)) = 6

-----------------------------------------------------------------------------
(* C9 *)

\* C9: the last line of the storage rendering holds the label
\* "Total Storage Used" and, after it, the value of
\* totals.grand_total_human ("0 B" when missing).
C9_TotalLine ==
    Rendered("storage") =>
        LET last == out[Len(out)]
            total == Str(PyGet(PyGet(data, "totals", EmptyObj),
                               "grand_total_human", S("0 B")))
        IN  SplitCells(last) = <<"Total Storage Used", total>>

-----------------------------------------------------------------------------
(* C10 *)

\* The path cell of an item row: "N/A" when the path is absent or empty.
PathCellOf(item) ==
    LET p == PyGet(item, "path", S("N/A"))
    IN  IF Truthy(p) THEN Str(p) ELSE "N/A"

\* C10: in the storage rendering every cell value taken from the report
\* (alias, provider, size, path) is in its output row character for
\* character, also when it holds the text of a header label.
C10_CellsVerbatim ==
    Rendered("storage") =>
        LET deps == PyGet(data, "dependencies", EmptyObj)
            storage == PyGet(data, "storage", EmptyObj)
            depRows == SectionBody(out, "Dependencies")
            dirRows == SectionBody(out, "Storage Directories")
            modelRows == SectionBody(out, "STT Models")
            voiceRows == SectionBody(out, "TTS Voices")
        IN  /\ Contains(depRows[1], Str(PathOf(PyGet(deps, "python", EmptyObj))))
            /\ Contains(depRows[2], Str(PathOf(PyGet(deps, "sox", EmptyObj))))
            /\ Contains(dirRows[1], Str(PathOf(PyGet(storage, "data_dir", EmptyObj))))
            /\ Contains(dirRows[11],
                        Str(PathOf(PyGet(storage, "huggingface_cache", EmptyObj))))
            /\ \A i \in DOMAIN WantedModels :
                 /\ Contains(modelRows[i], AliasOf(WantedModels[i]))
                 /\ Contains(modelRows[i], SizeCellOf(WantedModels[i]))
                 /\ Contains(modelRows[i], PathCellOf(WantedModels[i]))
            /\ \A i \in DOMAIN WantedVoices :
                 /\ Contains(voiceRows[i], AliasOf(WantedVoices[i]))
                 /\ Contains(voiceRows[i], Str(PyGet(WantedVoices[i], "provider", S(""))))
                 /\ Contains(voiceRows[i], SizeCellOf(WantedVoices[i]))
                 /\ Contains(voiceRows[i], PathCellOf(WantedVoices[i]))

-----------------------------------------------------------------------------
(* C2 *)

\* The runtime type as C2 says it is displayed.
C2_Display(type) ==
    CASE type = "bundled" -> CHECK \o " Bundled (self-contained)"
      [] type = "custom" -> CHECK \o " Custom (env override)"
      [] type = "system" -> "System"
      [] OTHER -> CHECK \o " " \o type

\* C2: the Runtime section of the doctor rendering displays the runtime
\* type: "Bundled (self-contained)" and "Custom (env override)" behind a
\* check mark, "System" without one, any other type raw behind a check mark.
C2_RuntimeTypeShown ==
    LET runtime == PyGet(data, "runtime", EmptyObj)
        body == SectionBody(out, "Runtime:")
    IN  (Rendered("doctor") /\ HasKey(runtime, "type")) =>
            /\ \E i \in DOMAIN body : Contains(body[i], C2_Display(Lookup(runtime, "type").v))
            /\ \A i \in DOMAIN body : ~Contains(body[i], CHECK \o " System")

-----------------------------------------------------------------------------
(* C1 *)

\* o with each absent key of defaults added.
RECURSIVE Fill(_, _)
Fill(o, defaults) ==
    IF defaults = <<>> THEN o
    ELSE Fill(IF HasKey(o, Head(defaults)[1]) THEN o
              ELSE With(o, Head(defaults)[1], Head(defaults)[2]),
              Tail(defaults))

SizeDefaults == << <<"size_human", S("0 B")>> >>
SizeAndPath == << <<"size_human", S("0 B")>>, <<"path", S("")>> >>
FillSize(o) == Fill(o, SizeDefaults)
FillSizeAndPath(o) == Fill(o, SizeAndPath)

FillItems(o, defaults) ==
    LET items == PyGet(o, "items", Arr(<<>>)).v
    IN  With(o, "items", Arr([i \in DOMAIN items |-> Fill(items[i], defaults)]))

\* The report with the documented default written in for every optional
\* leaf field that is missing: "" for texts, 0 for counts, false for flags,
\* "0 B" for sizes, "N/A" for an item's path.
Defaulted(d) ==
    LET Sub(o, k, F(_)) == With(o, k, F(PyGet(o, k, EmptyObj)))
        runtime(o) == Fill(o, << <<"type", S("unknown")>>, <<"python", S("")>>,
                                 <<"sox", S("")>>, <<"data_dir", S("")>> >>)
        system(o) == Fill(o, << <<"sox", B(FALSE)>>, <<"afplay", B(FALSE)>>,
                                <<"say", B(FALSE)>> >>)
        piper(o) == Fill(o, << <<"available", B(FALSE)>>, <<"voices", N(0)>> >>)
        kokoro(o) == Fill(o, << <<"available", B(FALSE)>>, <<"server_running", B(FALSE)>>,
                                <<"voices", N(0)>> >>)
        engines(o) == Sub(Sub(Fill(o, << <<"whisper", B(FALSE)>>, <<"parakeet", B(FALSE)>> >>),
                              "piper", piper), "kokoro", kokoro)
        deps(o) == Sub(Sub(Sub(Sub(o, "system", system), "engines", engines),
                           "python", FillSizeAndPath), "sox", FillSizeAndPath)
        models(o) == FillItems(Fill(o, << <<"whisper", N(0)>>, <<"parakeet", N(0)>> >>),
                               << <<"alias", S("")>>, <<"downloaded", B(FALSE)>>,
                                  <<"size_human", S("0 B")>>, <<"path", S("N/A")>> >>)
        voices(o) == FillItems(o, << <<"alias", S("")>>, <<"provider", S("")>>,
                                     <<"downloaded", B(FALSE)>>,
                                     <<"size_human", S("0 B")>>, <<"path", S("N/A")>> >>)
        stt(o) == Sub(Sub(FillSize(o), "daemon", FillSize), "recordings", FillSize)
        tts(o) == Sub(Sub(Sub(Sub(FillSize(o), "voices", FillSize), "previews", FillSize),
                          "recordings", FillSize), "tmp", FillSize)
        data_dir(o) == Sub(Sub(Sub(FillSizeAndPath(o), "stt", stt), "tts", tts),
                           "venv", FillSize)
        hf_cache(o) == Sub(FillSizeAndPath(o), "models", FillSize)
        storage(o) == Sub(Sub(o, "data_dir", data_dir), "huggingface_cache", hf_cache)
        playback(o) == Fill(o, << <<"active", B(FALSE)>> >>)
        totals(o) == Fill(o, << <<"grand_total_human", S("0 B")>> >>)
    IN  Sub(Sub(Sub(Sub(Sub(Sub(Sub(d, "runtime", runtime), "dependencies", deps),
                            "models", models), "voices", voices),
                    "storage", storage), "playback", playback), "totals", totals)

\* A report as the collector writes it, leaves possibly missing: an object
\* whose environment, when present, is a mapping.
IsReport(d) == d.t = "obj" /\ PyGet(d, "environment", EmptyObj).t = "obj"

\* C1: for every report that is a JSON object with any subset of its
\* optional leaf fields missing (playback.pid with playback.active true
\* among them), both renderings complete without an error, and show each
\* missing field as its documented default.
C1_MissingFieldsDefaulted ==
    (pc = "done" /\ IsReport(data)) =>
        /\ err = "none"
        /\ out = (IF view = "doctor" THEN DoctorMain(Defaulted(data))
                  ELSE FormatStorageTable(Defaulted(data))).out

\* What remains of C1 when playback.active is true and playback.pid is
\* missing is set aside.
C1_ExceptMissingPid ==
    LET playback == PyGet(data, "playback", EmptyObj)
    IN  (pc = "done" /\ IsReport(data)
         /\ ~(view = "doctor" /\ Truthy(PyGet(playback, "active", Null))
              /\ ~HasKey(playback, "pid")))
        => /\ err = "none"
           /\ out = (IF view = "doctor" THEN DoctorMain(Defaulted(data))
                     ELSE FormatStorageTable(Defaulted(data))).out

=============================================================================
